---------------------------- MODULE Spec2Model ----------------------------
(* A model of the em-ray-tracing engine: the SAH k-d tree accelerator      *)
(* (src/src/Engine/KdTreeAcc.cpp) and the ray launcher with its session    *)
(* state (src/unnamed/part_000).                                           *)
(*                                                                         *)
(* Coordinates are integers (metres).  A ray direction is an integer       *)
(* vector with components in {-1, 0, 1}; a "distance" along a ray is the   *)
(* ray parameter t of origin + t * direction, kept exact: a rational for   *)
(* boxes, planes and triangles, and (p + s*sqrt(D))/q for spheres.  The    *)
(* SAH costs, doubles in the code, are exact rationals here: two costs     *)
(* that differ only by rounding in the code are equal in the model.        *)
(*                                                                         *)
(* SpecBuild builds trees over scenes, SpecKd traverses trees with rays,   *)
(* SpecRt runs the session operations and Simulate.                        *)
EXTENDS Integers, Sequences, FiniteSets, TLC

VARIABLES
    scene,      \* std::vector<Geometry *> scene
    root,       \* the k-d tree: the set of KdNode records reachable from root
    ray,        \* the ray handed to KdTreeAcc::intersect
    pc,         \* position in KdTreeAcc::init / KdTreeAcc::intersect
    currNode,   \* id of the node under traversal (NULL when 0)
    stack,      \* StackElem stack[50], the slots written so far
    enPt,       \* entry index into the stack
    exPt,       \* exit index into the stack
    rxIntersections, \* std::map<int, RxSphereInfo>
    rxOut,      \* the rxPoints vector the caller receives
    result,     \* the IntersectResult returned
    accelerator, \* Accelerator *accelerator: "NULL" or the variant constructed
    txPoint,    \* Point txPoint
    txPower,    \* double txPower
    rxPoints,   \* std::vector<Point> rxPoints
    rxRadius,   \* double rxRadius
    rxFields,   \* std::vector<RxFields> rxFields: per bucket the fields added
    parameters, \* struct RtParameter parameters
    powers,     \* what the call just made wrote to the caller's powers buffer
    simPc,      \* position in Simulate: "idle", "rays" or "trace"
    nRays,      \* nTheta * nPhi of the running Simulate
    rayNo,      \* rays of the running Simulate that have been traced
    traced,     \* the ray and depth handed to trace(r, depth, E)
    simulations, \* Simulate calls that have returned
    lastCall,   \* the session call made last: its name, arguments and return value
    kernels     \* the field kernels the trace step just made entered, with the ray state

kdVars == <<scene, root, ray, pc, currNode, stack, enPt, exPt,
            rxIntersections, rxOut, result>>

rtVars == <<accelerator, txPoint, txPower, rxPoints, rxRadius, rxFields,
            parameters, powers, simPc, nRays, rayNo, traced, simulations, lastCall,
            kernels>>

vars == <<kdVars, rtVars>>

-----------------------------------------------------------------------------
(* Points and axes.  A point or vector is <<x, y, z>>; axes are 0, 1, 2.   *)

XAxis == 0
YAxis == 1
ZAxis == 2
NoAxis == 3
Axes == {XAxis, YAxis, ZAxis}

At(p, axis) == p[axis + 1]
\* a point as the tuple of its three coordinates
Vec(f) == << f[1], f[2], f[3] >>

SetAt(p, axis, v) == [p EXCEPT ![axis + 1] = v]

Min2(x, y) == IF x < y THEN x ELSE y
Max2(x, y) == IF x > y THEN x ELSE y
Abs(x) == IF x < 0 THEN -x ELSE x
Sign(x) == IF x > 0 THEN 1 ELSE IF x < 0 THEN -1 ELSE 0

Dot(u, v) == u[1] * v[1] + u[2] * v[2] + u[3] * v[3]
Cross(u, v) == << u[2] * v[3] - u[3] * v[2],
                  u[3] * v[1] - u[1] * v[3],
                  u[1] * v[2] - u[2] * v[1] >>
Sub(p, q) == << p[1] - q[1], p[2] - q[2], p[3] - q[3] >>

-----------------------------------------------------------------------------
(* Geometry: triangles (occluders) and receiver spheres.                   *)

Triangle(i, a, b, c) ==
    [type |-> "TRIANGLE", index |-> i, a |-> a, b |-> b, c |-> c,
     center |-> a, radius |-> 0]

RxSphere(i, center, radius) ==
    [type |-> "SPHERE", index |-> i, a |-> center, b |-> center, c |-> center,
     center |-> center, radius |-> radius]

Min3(x, y, z) == Min2(x, Min2(y, z))
Max3(x, y, z) == Max2(x, Max2(y, z))

getBoundingBox(g) ==
    IF g.type = "TRIANGLE"
    THEN [min |-> Vec([k \in 1..3 |-> Min3(g.a[k], g.b[k], g.c[k])]),
          max |-> Vec([k \in 1..3 |-> Max3(g.a[k], g.b[k], g.c[k])])]
    ELSE [min |-> Vec([k \in 1..3 |-> g.center[k] - g.radius]),
          max |-> Vec([k \in 1..3 |-> g.center[k] + g.radius])]

-----------------------------------------------------------------------------
(* double arithmetic of splitSAH, exact: a value is [n, d] with d >= 0;    *)
(* d > 0 is the rational n/d, d = 0 is +inf (n > 0), -inf (n < 0) or NaN   *)
(* (n = 0), as IEEE division by zero produces them.                        *)

FInt(x) == [n |-> x, d |-> 1]
FNaN == [n |-> 0, d |-> 0]
DBL_MAX == [n |-> 1, d |-> 0]

FDiv(a, b) ==
    IF b > 0 THEN [n |-> a, d |-> b]
    ELSE IF b < 0 THEN [n |-> -a, d |-> -b]
    ELSE [n |-> Sign(a), d |-> 0]

FMulInt(x, c) ==
    IF x.d > 0 THEN [n |-> x.n * c, d |-> x.d]
    ELSE [n |-> Sign(x.n * c), d |-> 0]

FMulRat(x, num, den) ==
    IF x.d > 0 THEN [n |-> x.n * num, d |-> x.d * den]
    ELSE [n |-> Sign(x.n * num), d |-> 0]

FAdd(x, y) ==
    IF x.d > 0 /\ x.d = y.d THEN [n |-> x.n + y.n, d |-> x.d]
    ELSE IF x.d > 0 /\ y.d > 0 THEN [n |-> x.n * y.d + y.n * x.d, d |-> x.d * y.d]
    ELSE IF x.d > 0 THEN y
    ELSE IF y.d > 0 THEN x
    ELSE IF x.n = y.n THEN x
    ELSE FNaN

FIsNaN(x) == x.d = 0 /\ x.n = 0

FLess(x, y) ==
    IF FIsNaN(x) \/ FIsNaN(y) THEN FALSE
    ELSE IF x.d = y.d THEN x.n < y.n
    ELSE IF x.d > 0 /\ y.d > 0 THEN x.n * y.d < y.n * x.d
    ELSE IF x.d = 0 THEN x.n < 0
    ELSE y.n > 0

-----------------------------------------------------------------------------
(* KdTreeAcc::splitSAH                                                     *)

\* enum of KdEvent types in the order cmpKdEvent sorts them
End == 0
Planar == 1
Start == 2

KdEvent(g, position, type) == [geometry |-> g.index, position |-> position, type |-> type]

cmpKdEvent(a, b) ==
    (a.position < b.position) \/ ((a.position = b.position) /\ a.type < b.type)

\* lines 205-220: the events of the geometries on one axis, in list order.
\* Slot 2k-1 is the Planar or the Start event of list[k] and slot 2k its End
\* event; a planar geometry leaves slot 2k empty.
NoEvent == 3

EventSlot(list, axis, k) ==
    LET g == list[(k + 1) \div 2]
        lo == At(getBoundingBox(g).min, axis)
        hi == At(getBoundingBox(g).max, axis)
    IN  IF k % 2 = 1
        THEN KdEvent(g, lo, IF lo = hi THEN Planar ELSE Start)
        ELSE KdEvent(g, hi, IF lo = hi THEN NoEvent ELSE End)

GenerateEvents(list, axis) ==
    SelectSeq([k \in 1..(2 * Len(list)) |-> EventSlot(list, axis, k)],
              LAMBDA e : e.type # NoEvent)

\* one of the three inner while loops: the length of the run of events from
\* i with this position and type (the events are sorted, so the run is
\* every such event from i on)
EventRun(events, i, position, type) ==
    Cardinality({ k \in i..Len(events) :
                    events[k].position = position /\ events[k].type = type })

\* the events of one axis left in list order
UnsortedEvents(list, axis) == GenerateEvents(list, axis)

\* lines 205-223: the events of one axis, sorted
SortedEvents(list, axis) == SortSeq(GenerateEvents(list, axis), cmpKdEvent)

KT == 1
KI_num == 3
KI_den == 2

\* lines 265-279: the cost of the plane at position, as the code computes it
SAHCost(node, axis, position, NL, NP, NR) ==
    LET nextAxis == (axis + 1) % 3
        prevAxis == (axis + 2) % 3
        boxSize == Sub(node.max, node.min)
        width == At(node.max, axis) - At(node.min, axis)
        leftWidth == position - At(node.min, axis)
        rightWidth == At(node.max, axis) - position
        height == At(boxSize, nextAxis)
        depth == At(boxSize, prevAxis)
        SAL == leftWidth * height + leftWidth * depth + height * depth
        SAR == rightWidth * height + rightWidth * depth + height * depth
        SA == width * height + width * depth + height * depth
    IN  FAdd(FInt(KT),
             FMulRat(FAdd(FMulInt(FDiv(SAL, SA), NL),
                          FMulInt(FDiv(SAR, SA), NR + NP)),
                     KI_num, KI_den))

\* lines 230-288: the sweep over the sorted events of one axis, from event i;
\* best is the minimum so far, kept with the counts its cost was computed from
RECURSIVE Sweep(_, _, _, _, _, _, _)
Sweep(node, axis, events, i, NL, NR, best) ==
    IF i > Len(events) THEN best
    ELSE LET position == events[i].position
             PE == EventRun(events, i, position, End)
             PP == EventRun(events, i + PE, position, Planar)
             PS == EventRun(events, i + PE + PP, position, Start)
             NP == PP
             NR1 == NR - PP - PE
             SAH == SAHCost(node, axis, position, NL, NP, NR1)
         IN  IF FLess(SAH, best.minSAH)
             THEN Sweep(node, axis, events, i + PE + PP + PS, NL + PS + PP, NR1,
                        [minSAH |-> SAH, minPosition |-> position, bestAxis |-> axis,
                         NL |-> NL, NP |-> NP, NR |-> NR1])
             ELSE Sweep(node, axis, events, i + PE + PP + PS, NL + PS + PP, NR1, best)

\* lines 201-228: one round of the loop over the axes
SweepAxis(node, list, axis, best) ==
    Sweep(node, axis, SortedEvents(list, axis), 1, 0, Len(list), best)

\* minPosition and bestAxis are uninitialized until a candidate is taken; the
\* caller reads them only when minSAH <= 1.5 * |list|, which needs one taken.
NoSplit == [minSAH |-> DBL_MAX, minPosition |-> 0, bestAxis |-> NoAxis,
            NL |-> 0, NP |-> 0, NR |-> 0]

splitSAH(node, list) ==
    SweepAxis(node, list, ZAxis,
        SweepAxis(node, list, YAxis,
            SweepAxis(node, list, XAxis, NoSplit)))

-----------------------------------------------------------------------------
(* KdTreeAcc::buildKdTree and KdTreeAcc::init                              *)

LeafSize == 8
MaxDepth == 18

\* line 38 with the depth test one level late
IsLeafDeeper(list, depth) == Len(list) <= LeafSize \/ depth > MaxDepth + 1

\* line 38 with the size test one geometry wide
IsLeafLarger(list, depth) == Len(list) <= LeafSize + 1 \/ depth > MaxDepth

\* line 38
IsLeaf(list, depth) == Len(list) <= LeafSize \/ depth > MaxDepth

\* lines 132-134 and 150 with <= for <
GoesLeftInclusive(g, axis, median) ==
    IF g.type = "TRIANGLE"
    THEN At(g.a, axis) <= median \/ At(g.b, axis) <= median \/ At(g.c, axis) <= median
    ELSE At(g.center, axis) - g.radius <= median

\* line 81
AutoTerminate(sah, list) == FLess(FDiv(KI_num * Len(list), KI_den), sah)

\* lines 132-134 and 150
GoesLeft(g, axis, median) ==
    IF g.type = "TRIANGLE"
    THEN At(g.a, axis) < median \/ At(g.b, axis) < median \/ At(g.c, axis) < median
    ELSE At(g.center, axis) - g.radius < median

\* lines 139-141 and 155 with the test dropped: every geometry goes right,
\* also one that lies wholly left of the plane
GoesRightAlways(g, axis, median) == g.type \in {"TRIANGLE", "SPHERE"}

\* lines 139-141 and 155 with > for >=
GoesRightStrict(g, axis, median) ==
    IF g.type = "TRIANGLE"
    THEN At(g.a, axis) > median \/ At(g.b, axis) > median \/ At(g.c, axis) > median
    ELSE At(g.center, axis) + g.radius > median

\* lines 139-141 and 155
GoesRight(g, axis, median) ==
    IF g.type = "TRIANGLE"
    THEN At(g.a, axis) >= median \/ At(g.b, axis) >= median \/ At(g.c, axis) >= median
    ELSE At(g.center, axis) + g.radius >= median

\* lines 126-160: <<leftPart, rightPart>> of list, each in list order
Filter(list, axis, median) ==
    << SelectSeq(list, LAMBDA g : GoesLeft(g, axis, median)),
       SelectSeq(list, LAMBDA g : GoesRight(g, axis, median)) >>

\* A KdNode.  id is the node's place in the tree: the root is 1 and the
\* children of id are 2*id (left) and 2*id + 1 (right).  Three fields are
\* kept for the properties only: sahLeaf tells the leaf made at lines 81-91
\* from the one made at lines 38-56, split is what splitSAH returned for the
\* node (NoSplit where it was not called), and given is the list the call
\* that made the node received.
KdLeaf(id, node, list, depth, bySAH, s) ==
    [id |-> id, depth |-> depth, axis |-> NoAxis, splitPlane |-> 0,
     min |-> node.min, max |-> node.max, list |-> list, sahLeaf |-> bySAH,
     split |-> s, given |-> list]

KdInternal(id, node, list, depth, s) ==
    [id |-> id, depth |-> depth, axis |-> s.bestAxis, splitPlane |-> s.minPosition,
     min |-> node.min, max |-> node.max, list |-> << >>, sahLeaf |-> FALSE,
     split |-> s, given |-> list]

\* lines 101-107: the children's boxes
LeftBox(node, axis, median) == [min |-> node.min, max |-> SetAt(node.max, axis, median)]
RightBox(node, axis, median) == [min |-> SetAt(node.min, axis, median), max |-> node.max]

\* One call of buildKdTree
Call(id, node, list, depth) == [id |-> id, node |-> node, list |-> list, depth |-> depth]

\* lines 38-92: the node the call makes
NodeOf(c) ==
    IF IsLeaf(c.list, c.depth) THEN KdLeaf(c.id, c.node, c.list, c.depth, FALSE, NoSplit)
    ELSE LET s == splitSAH(c.node, c.list)
         IN  IF AutoTerminate(s.minSAH, c.list)
             THEN KdLeaf(c.id, c.node, c.list, c.depth, TRUE, s)
             ELSE KdInternal(c.id, c.node, c.list, c.depth, s)

\* lines 94-163: the two calls an internal node n of call c makes
ChildCalls(c, n) ==
    IF n.axis = NoAxis THEN {}
    ELSE LET parts == Filter(c.list, n.axis, n.splitPlane)
         IN  { Call(2 * c.id, LeftBox(c.node, n.axis, n.splitPlane), parts[1], c.depth + 1),
               Call(2 * c.id + 1, RightBox(c.node, n.axis, n.splitPlane), parts[2],
                    c.depth + 1) }

\* lines 34-164, the recursion taken one depth at a time: calls are the calls
\* of one depth, and the result is the set of the nodes they and their
\* descendants make.
RECURSIVE buildKdTree(_)
buildKdTree(calls) ==
    IF calls = {} THEN {}
    ELSE { NodeOf(c) : c \in calls }
         \cup buildKdTree(UNION { ChildCalls(c, NodeOf(c)) : c \in calls })

\* lines 303-322: the root box is the union of the members' boxes
RECURSIVE SceneBox(_, _, _)
SceneBox(list, i, acc) ==
    IF i > Len(list) THEN acc
    ELSE LET bb == getBoundingBox(list[i])
         IN  SceneBox(list, i + 1,
                      [min |-> Vec([k \in 1..3 |-> Min2(acc.min[k], bb.min[k])]),
                       max |-> Vec([k \in 1..3 |-> Max2(acc.max[k], bb.max[k])])])

\* DBL_MAX as a box coordinate: the root box of an empty scene is
\* (DBL_MAX, -DBL_MAX) on every axis
BoxMax == 1000000

EmptyBox == [min |-> <<BoxMax, BoxMax, BoxMax>>, max |-> <<-BoxMax, -BoxMax, -BoxMax>>]

KdTreeInit(list) ==
    IF list = << >>
    THEN buildKdTree({ Call(1, EmptyBox, list, 0) })
    ELSE buildKdTree({ Call(1, SceneBox(list, 2, getBoundingBox(list[1])), list, 0) })

-----------------------------------------------------------------------------
(* Distances along a ray, exact.  A distance is [p, s, D, q], the number   *)
(* (p + s * sqrt(D)) / q with q > 0 and s in {-1, 0, 1}; q = 0 stands for  *)
(* DBL_MAX.  Every comparison the code makes has a rational on its right.  *)

Rat(n, d) == IF d < 0 THEN [p |-> -n, s |-> 0, D |-> 0, q |-> -d]
             ELSE [p |-> n, s |-> 0, D |-> 0, q |-> d]
Surd(p, s, D, q) == [p |-> p, s |-> s, D |-> D, q |-> q]
DistMax == [p |-> 1, s |-> 0, D |-> 0, q |-> 0]

\* c*c*D < k*k for c >= 0, D >= 0, k >= 0, without forming the squares
SqLess(c, D, k) ==
    IF c = 0 THEN k > 0
    ELSE LET a == k \div c
             r == k % c
             e == D - a * a
             w == e * c - 2 * a * r
         IN  IF e < 0 THEN TRUE
             ELSE IF e > 2 * a THEN FALSE
             ELSE IF w < 0 THEN TRUE
             ELSE IF w >= c THEN FALSE
             ELSE w * c < r * r

\* c*c*D > k*k for c >= 0, D >= 0, k >= 0
SqGreater(c, D, k) ==
    IF c = 0 THEN FALSE
    ELSE LET a == k \div c
             r == k % c
             e == D - a * a
             w == e * c - 2 * a * r
         IN  IF e < 0 THEN FALSE
             ELSE IF e > 2 * a THEN TRUE
             ELSE IF w < 0 THEN FALSE
             ELSE IF w >= c THEN TRUE
             ELSE w * c > r * r

\* x < y and x > y, for y rational (y.s = 0)
DLess(x, y) ==
    LET k == y.p * x.q - y.q * x.p
    IN  IF x.s = 0 THEN 0 < k
        ELSE IF x.s = 1 THEN k > 0 /\ SqLess(y.q, x.D, k)
        ELSE k > 0 \/ SqGreater(y.q, x.D, -k)

DGreater(x, y) ==
    LET k == y.p * x.q - y.q * x.p
    IN  IF x.s = 0 THEN k < 0
        ELSE IF x.s = 1 THEN k < 0 \/ SqGreater(y.q, x.D, k)
        ELSE k < 0 /\ SqLess(y.q, x.D, -k)

DGeq(x, y) == ~DLess(x, y)
DLeq(x, y) == ~DGreater(x, y)

\* the rational t + num/den for an integer t
Offset(t, num, den) == Rat(t * den + num, den)

-----------------------------------------------------------------------------
(* Ray intersection of the geometries and of the scene box.                *)

Ray(origin, direction) == [origin |-> origin, direction |-> direction]

PointAt(r, t) == Vec([k \in 1..3 |-> r.origin[k] + r.direction[k] * t])

NoHit == [hit |-> FALSE, distance |-> DistMax, geometry |-> 0, type |-> "NONE"]

\* the smallest accepted hit distance is HitEps_num / HitEps_den
HitEps_num == 1
HitEps_den == 10000

Hit(g, distance) ==
    IF DGeq(distance, Rat(HitEps_num, HitEps_den))
    THEN [hit |-> TRUE, distance |-> distance, geometry |-> g.index, type |-> g.type]
    ELSE NoHit

\* Moeller-Trumbore without back-face culling; edges and vertices belong to
\* the triangle
TriangleIntersect(g, r) ==
    LET e1 == Sub(g.b, g.a)
        e2 == Sub(g.c, g.a)
        P == Cross(r.direction, e2)
        det == Dot(e1, P)
        T == Sub(r.origin, g.a)
        Q == Cross(T, e1)
        sg == Sign(det)
        u == sg * Dot(T, P)
        v == sg * Dot(r.direction, Q)
        t == sg * Dot(e2, Q)
    IN  IF det = 0 THEN NoHit
        ELSE IF u < 0 \/ v < 0 \/ u + v > sg * det THEN NoHit
        ELSE Hit(g, Rat(t, sg * det))

\* the nearest forward root of |origin + t * direction - center| = radius
SphereIntersect(g, r) ==
    LET oc == Sub(r.origin, g.center)
        A == Dot(r.direction, r.direction)
        B == Dot(r.direction, oc)
        C == Dot(oc, oc) - g.radius * g.radius
        D == B * B - A * C
        near == Hit(g, Surd(-B, -1, D, A))
    IN  IF D < 0 THEN NoHit
        ELSE IF near.hit THEN near
        ELSE Hit(g, Surd(-B, 1, D, A))

GeometryIntersect(g, r) ==
    IF g.type = "TRIANGLE" THEN TriangleIntersect(g, r) ELSE SphereIntersect(g, r)

\* Grid::intersect on the scene box: the entry and exit parameters of the
\* slab test.  Directions have components in {-1, 0, 1}, so both are integers.
SlabNear(box, r, k) ==
    IF r.direction[k] > 0 THEN box.min[k] - r.origin[k] ELSE r.origin[k] - box.max[k]
SlabFar(box, r, k) ==
    IF r.direction[k] > 0 THEN box.max[k] - r.origin[k] ELSE r.origin[k] - box.min[k]

GridIntersect(box, r) ==
    LET moving == {k \in 1..3 : r.direction[k] # 0}
        still == (1..3) \ moving
        inside == \A k \in still : box.min[k] <= r.origin[k] /\ r.origin[k] <= box.max[k]
        entry == CHOOSE t \in {SlabNear(box, r, k) : k \in moving} :
                     \A k \in moving : SlabNear(box, r, k) <= t
        exit == CHOOSE t \in {SlabFar(box, r, k) : k \in moving} :
                     \A k \in moving : t <= SlabFar(box, r, k)
    IN  IF inside /\ entry <= exit /\ exit >= 0
        THEN [hit |-> TRUE, entry |-> entry, exit |-> exit]
        ELSE [hit |-> FALSE, entry |-> 0, exit |-> 0]

-----------------------------------------------------------------------------
(* KdTreeAcc::intersect, the traversal TA_rec_B.                           *)

NULL == 0
StackSize == 50

\* the guard band 0.001f around a leaf's distance interval
GuardEps_num == 1
GuardEps_den == 1000

Node(id) == CHOOSE n \in root : n.id = id
LeftOf(id) == 2 * id
RightOf(id) == 2 * id + 1

\* a slot the code has not written holds whatever the stack memory held
\* (prevSet tells whether the code has assigned the slot's prev)
Unwritten == [t |-> 0, pb |-> <<0, 0, 0>>, node |-> NULL, prev |-> 0, prevSet |-> FALSE]
StackElem(t, pb, node, prev) ==
    [t |-> t, pb |-> pb, node |-> node, prev |-> prev, prevSet |-> TRUE]

\* what a read of an int the code never assigned may yield
Indeterminate == {-1, 0, StackSize}

\* lines 386-418: which child comes next, and the far child when both are
\* traversed (NULL when only one is)
NextChild(n, en, ex) ==
    LET splitVal == n.splitPlane
    IN  IF At(en.pb, n.axis) <= splitVal
        THEN IF At(ex.pb, n.axis) <= splitVal
             THEN [curr |-> LeftOf(n.id), far |-> NULL]
             ELSE IF At(ex.pb, n.axis) = splitVal
             THEN [curr |-> RightOf(n.id), far |-> NULL]
             ELSE [curr |-> LeftOf(n.id), far |-> RightOf(n.id)]
        ELSE IF splitVal < At(ex.pb, n.axis)
             THEN [curr |-> RightOf(n.id), far |-> NULL]
             ELSE [curr |-> RightOf(n.id), far |-> LeftOf(n.id)]

\* lines 425-427
NextExit(en, ex) == IF ex + 1 = en THEN ex + 2 ELSE ex + 1

\* lines 445-447
InLeafInterval(distance, en, ex) ==
    /\ DGeq(distance, Offset(en.t, -GuardEps_num, GuardEps_den))
    /\ DLeq(distance, Offset(ex.t, GuardEps_num, GuardEps_den))

RxSphereInfo(g, res) == [distance |-> res.distance, offset |-> g.radius, radius |-> g.radius]

\* lines 442-466: the scan of a leaf's list from element i; st holds
\* minDistance, minResult and the rxIntersections map
RECURSIVE LeafScan(_, _, _, _, _, _)
LeafScan(list, i, r, en, ex, st) ==
    IF i > Len(list) THEN st
    ELSE LET g == list[i]
             res == GeometryIntersect(g, r)
             st1 ==
                 IF res.hit /\ InLeafInterval(res.distance, en, ex)
                 THEN IF res.type = "SPHERE" /\ DLess(res.distance, st.minDistance)
                      THEN [st EXCEPT !.rx =
                               [k \in DOMAIN st.rx \cup {g.index} |->
                                   IF k = g.index THEN RxSphereInfo(g, res) ELSE st.rx[k]]]
                      ELSE IF DLess(res.distance, st.minDistance)
                      THEN [st EXCEPT !.minDistance = res.distance, !.minResult = res]
                      ELSE st
                 ELSE st
         IN  LeafScan(list, i + 1, r, en, ex, st1)

\* the map's entries in key order, as RxIntersection records
RECURSIVE RxEntries(_, _)
RxEntries(rx, keys) ==
    IF keys = {} THEN << >>
    ELSE LET k == CHOOSE x \in keys : \A y \in keys : x <= y
         IN  << [index |-> k, distance |-> rx[k].distance,
                 offset |-> rx[k].offset, radius |-> rx[k].radius] >>
             \o RxEntries(rx, keys \ {k})

\* a variant that emits the whole collection whatever the occluder distance
EmitRegardless(rx, minDistance) ==
    RxEntries(rx, DOMAIN rx)

\* lines 471-478
EmitBefore(rx, minDistance) ==
    RxEntries(rx, {k \in DOMAIN rx : DLess(rx[k].distance, minDistance)})

\* lines 494-499
EmitAll(rx) == RxEntries(rx, DOMAIN rx)

EmptyMap == [k \in {} |-> 0]

\* KdTreeAcc::init
init ==
    /\ pc = "new"
    /\ root' = KdTreeInit(scene)
    /\ pc' = "built"
    /\ UNCHANGED <<scene, ray, currNode, stack, enPt, exPt, rxIntersections, rxOut, result>>
    /\ UNCHANGED rtVars

\* lines 342-370
intersectBegin(r) ==
    /\ pc = "built"
    /\ ray' = r
    /\ LET n == Node(1)
           g == GridIntersect([min |-> n.min, max |-> n.max], r)
       IN  IF ~g.hit
           THEN /\ result' = NoHit
                /\ pc' = "done"
                /\ UNCHANGED <<currNode, stack, enPt, exPt>>
           ELSE /\ currNode' = 1
                /\ enPt' = 0
                /\ exPt' = 1
                /\ stack' = [k \in 0..(StackSize - 1) |->
                               IF k = 0
                               THEN [Unwritten EXCEPT !.t = g.entry,
                                        !.pb = IF g.entry >= 0 THEN PointAt(r, g.entry)
                                               ELSE r.origin]
                               ELSE IF k = 1
                               THEN [Unwritten EXCEPT !.t = g.exit,
                                        !.pb = PointAt(r, g.exit), !.node = NULL]
                               ELSE Unwritten]
                /\ pc' = "loop"
                /\ UNCHANGED result
    /\ rxIntersections' = EmptyMap
    /\ rxOut' = << >>
    /\ UNCHANGED <<scene, root>>
    /\ UNCHANGED rtVars

\* lines 376-436: one pass of the loop that descends to a leaf
descend ==
    /\ pc = "loop"
    /\ currNode # NULL
    /\ Node(currNode).axis # NoAxis
    /\ LET n == Node(currNode)
           c == NextChild(n, stack[enPt], stack[exPt])
           axis == n.axis
           t == (n.splitPlane - At(ray.origin, axis)) \div At(ray.direction, axis)
           x == NextExit(enPt, exPt)
       IN  /\ currNode' = c.curr
           /\ IF c.far = NULL
              THEN UNCHANGED <<stack, exPt>>
              ELSE /\ exPt' = x
                   /\ stack' = [stack EXCEPT ![x] =
                          StackElem(t, SetAt(PointAt(ray, t), axis, n.splitPlane), c.far, exPt)]
    /\ UNCHANGED <<scene, root, ray, pc, enPt, rxIntersections, rxOut, result>>
    /\ UNCHANGED rtVars

\* lines 439-491: the leaf is scanned; an accepted triangle ends the
\* traversal, otherwise the next node is popped
leaf ==
    /\ pc = "loop"
    /\ currNode # NULL
    /\ Node(currNode).axis = NoAxis
    /\ LET st == LeafScan(Node(currNode).list, 1, ray, stack[enPt], stack[exPt],
                          [minDistance |-> DistMax, minResult |-> NoHit,
                           rx |-> rxIntersections])
       IN  /\ rxIntersections' = st.rx
           /\ IF st.minResult.hit
              THEN /\ rxOut' = rxOut \o EmitBefore(st.rx, st.minDistance)
                   /\ result' = st.minResult
                   /\ pc' = "done"
                   /\ UNCHANGED <<currNode, enPt, exPt>>
              ELSE /\ enPt' = exPt
                   /\ currNode' = stack[exPt].node
                   /\ exPt' \in (IF stack[exPt].prevSet THEN {stack[exPt].prev}
                                 ELSE Indeterminate)
                   /\ UNCHANGED <<rxOut, result, pc>>
    /\ UNCHANGED <<scene, root, ray, stack>>
    /\ UNCHANGED rtVars

\* lines 493-502
leaveScene ==
    /\ pc = "loop"
    /\ currNode = NULL
    /\ rxOut' = rxOut \o EmitAll(rxIntersections)
    /\ result' = NoHit
    /\ pc' = "done"
    /\ UNCHANGED <<scene, root, ray, currNode, stack, enPt, exPt, rxIntersections>>
    /\ UNCHANGED rtVars

-----------------------------------------------------------------------------
(* The scenes.  Catalogue holds the triangles a caller registers with      *)
(* AddTriangle and then the receiver spheres Simulate appends; a scene is  *)
(* a selection of them in this order.                                      *)

Catalogue ==
    << Triangle(1, <<3, 3, 0>>, <<2, 4, 3>>, <<3, 2, 3>>),
       Triangle(2, <<0, 0, 0>>, <<4, 0, 0>>, <<4, 4, 0>>),
       Triangle(3, <<2, 4, 1>>, <<4, 1, 2>>, <<1, 0, 4>>),
       Triangle(4, <<4, 3, 2>>, <<1, 2, 0>>, <<1, 4, 1>>),
       Triangle(5, <<3, 4, 2>>, <<0, 4, 0>>, <<0, 3, 0>>),
       Triangle(6, <<2, 4, 4>>, <<1, 2, 0>>, <<0, 2, 3>>),
       Triangle(7, <<4, 0, 0>>, <<4, 4, 0>>, <<4, 4, 4>>),
       Triangle(8, <<4, 0, 2>>, <<3, 2, 4>>, <<1, 4, 3>>),
       Triangle(9, <<0, 4, 0>>, <<4, 4, 0>>, <<4, 4, 4>>),
       Triangle(10, <<2, 0, 0>>, <<2, 4, 0>>, <<2, 4, 4>>),
       RxSphere(1, <<1, 1, 1>>, 1),
       RxSphere(2, <<3, 2, 3>>, 1) >>

\* the most geometries a scene of SpecBuild holds
MaxGeometries == 11

CatalogueIndex(g) == CHOOSE k \in 1..Len(Catalogue) : Catalogue[k] = g

CanAdd(k) ==
    /\ pc = "new"
    /\ Len(scene) < MaxGeometries
    /\ IF scene = << >> THEN TRUE ELSE CatalogueIndex(scene[Len(scene)]) < k

\* AddTriangle: the triangle is appended to the scene
AddTriangle(k) ==
    /\ Catalogue[k].type = "TRIANGLE"
    /\ CanAdd(k)
    /\ scene' = Append(scene, Catalogue[k])
    /\ UNCHANGED <<root, ray, pc, currNode, stack, enPt, exPt, rxIntersections, rxOut, result>>
    /\ UNCHANGED rtVars

\* Simulate, line 511: a receiver sphere is appended to the scene
AddRxSphere(k) ==
    /\ Catalogue[k].type = "SPHERE"
    /\ CanAdd(k)
    /\ scene' = Append(scene, Catalogue[k])
    /\ UNCHANGED <<root, ray, pc, currNode, stack, enPt, exPt, rxIntersections, rxOut, result>>
    /\ UNCHANGED rtVars

KdIdle ==
    /\ root = {}
    /\ ray = Ray(<<0, 0, 0>>, <<0, 0, 1>>)
    /\ pc = "new"
    /\ currNode = NULL
    /\ stack = [k \in 0..(StackSize - 1) |-> Unwritten]
    /\ enPt = 0
    /\ exPt = 0
    /\ rxIntersections = EmptyMap
    /\ rxOut = << >>
    /\ result = NoHit

\* the powers buffer after a call other than GetRxPowers
NotWritten == [called |-> FALSE, written |-> << >>]

\* a session call with its arguments and what it returned: "true", "false",
\* or "void" for a function that returns nothing
Return(op, args, value) == [op |-> op, args |-> args, value |-> value]

NoCall == Return("none", << >>, "void")

\* the globals of the launcher before any call
NoRay == [state |-> "None", path |-> << >>, reflections |-> << >>,
          unit_surface_area |-> 0, prev_mileage |-> 0]

RtIdle ==
    /\ accelerator = "NULL"
    /\ txPoint = <<0, 0, 0>>
    /\ txPower = 0
    /\ rxPoints = << >>
    /\ rxRadius = 0
    /\ rxFields = << >>
    /\ parameters = [maxReflections |-> 0, raySpacing |-> 0, frequency |-> 0]
    /\ powers = NotWritten
    /\ simPc = "idle"
    /\ nRays = 0
    /\ rayNo = 0
    /\ traced = [ray |-> NoRay, depth |-> 0]
    /\ simulations = 0
    /\ lastCall = NoCall
    /\ kernels = {}

BuildInit ==
    /\ scene = << >>
    /\ KdIdle
    /\ RtIdle

BuildNext ==
    \/ \E k \in 1..Len(Catalogue) : AddTriangle(k)
    \/ \E k \in 1..Len(Catalogue) : AddRxSphere(k)
    \/ init

SpecBuild == BuildInit /\ [][BuildNext]_vars

-----------------------------------------------------------------------------
(* SpecKd: rays traversed through the trees of fixed scenes.               *)

\* the geometries of Catalogue at the given places, in the given order
SceneOf(places) == [i \in 1..Len(places) |-> Catalogue[places[i]]]

\* a scene whose receiver spheres precede its triangles, as after Simulate
\* followed by AddTriangles, and a scene whose tree is 19 levels deep
KdScenes == { SceneOf(<<11, 12, 1, 2, 3, 4, 5, 6, 7, 8, 9, 10>>),
              SceneOf(<<1, 2, 3, 4, 5, 6, 8, 10, 11, 12>>) }

\* ray origins have coordinates -1 .. OriginSpan - 1
OriginSpan == 5

Coordinates == { k - 1 : k \in 0..OriginSpan }
Origins == { <<x, y, z>> : x \in Coordinates, y \in Coordinates, z \in Coordinates }
Directions == { <<x, y, z>> : x \in {-1, 0, 1}, y \in {-1, 0, 1}, z \in {-1, 0, 1} }
                  \ { <<0, 0, 0>> }
Rays == { Ray(o, d) : o \in Origins, d \in Directions }

KdInit ==
    /\ scene \in KdScenes
    /\ KdIdle
    /\ RtIdle

KdNext ==
    \/ init
    \/ \E r \in Rays : intersectBegin(r)
    \/ descend
    \/ leaf
    \/ leaveScene

SpecKd == KdInit /\ [][KdNext]_vars

-----------------------------------------------------------------------------
(* SpecPermute: the same geometries handed to KdTreeAcc in another order.  *)

\* the scene in the order of the catalogue
PermuteBase == SceneOf(<<1, 2, 3, 4, 5, 6, 7, 8, 9, 10>>)

\* the most places of the scene that hold another geometry than in
\* PermuteBase
MaxDisplaced == 3

Displaced(list) == Cardinality({ k \in 1..Len(list) : list[k] # PermuteBase[k] })

\* the caller registers the geometries in an order that has two of them
\* exchanged
Reorder(i, j) ==
    /\ pc = "new"
    /\ LET list == [k \in 1..Len(scene) |->
                       IF k = i THEN scene[j] ELSE IF k = j THEN scene[i] ELSE scene[k]]
       IN  /\ Displaced(list) <= MaxDisplaced
           /\ scene' = list
    /\ UNCHANGED <<root, ray, pc, currNode, stack, enPt, exPt, rxIntersections, rxOut, result>>
    /\ UNCHANGED rtVars

PermuteInit ==
    /\ scene = PermuteBase
    /\ KdIdle
    /\ RtIdle

PermuteNext ==
    \/ \E i \in 1..Len(scene) : \E j \in (i + 1)..Len(scene) : Reorder(i, j)
    \/ init

SpecPermute == PermuteInit /\ [][PermuteNext]_vars

-----------------------------------------------------------------------------
(* The launcher and its session (src/unnamed/part_000).  A ray of the      *)
(* launcher is its state, its path and, for the properties, the indices of *)
(* the triangles it has reflected off; fields are kept as the path and the *)
(* ray state they were computed for.  What accelerator->intersect returns  *)
(* for a ray is any answer of the intersection contract over the scene.    *)

\* the largest maxReflections a caller sets and the most Simulate calls
MaxReflections == 2
MaxSimulate == 2

\* what else a caller passes: the triangles, the numbers and radii of the
\* receivers, the ray spacings in degrees, the frequencies in MHz, the
\* preprocess methods and the powers in dBm.  With radius 5 and hits at whole
\* metres the projected cell of the full sphere is smaller than the receiver
\* disc up to a mileage of 2 and larger from 3 on.
RtCatalogue == SubSeq(Catalogue, 1, 2)
ReceiverCounts == {0, 1}
ReceiverRadii == {5}
RaySpacings == {360}
Frequencies == {900}
Methods == {"KdTree", "Unknown"}
TxPowers == {20}

Idle == simPc = "idle"

\* the triangles and the receiver spheres of the scene
Triangles == { scene[i] : i \in { j \in 1..Len(scene) : scene[j].type = "TRIANGLE" } }
Spheres == { scene[i] : i \in { j \in 1..Len(scene) : scene[j].type = "SPHERE" } }

\* Initialize
Initialize ==
    /\ Idle
    /\ scene' = << >>
    /\ UNCHANGED <<root, ray, pc, currNode, stack, enPt, exPt, rxIntersections, rxOut, result>>
    /\ powers' = NotWritten
    /\ lastCall' = Return("Initialize", << >>, "void")
    /\ kernels' = {}
    /\ UNCHANGED <<accelerator, txPoint, txPower, rxPoints, rxRadius, rxFields, parameters,
                   simPc, nRays, rayNo, traced, simulations>>

TriangleCount == Cardinality({ i \in 1..Len(scene) : scene[i].type = "TRIANGLE" })


\* AddTriangles: the next n triangles of the catalogue are appended
AddTriangles(n) ==
    /\ Idle
    /\ TriangleCount + n <= Len(RtCatalogue)
    /\ scene' = scene \o [i \in 1..n |-> RtCatalogue[TriangleCount + i]]
    /\ UNCHANGED <<root, ray, pc, currNode, stack, enPt, exPt, rxIntersections, rxOut, result>>
    /\ powers' = NotWritten
    /\ lastCall' = Return("AddTriangles", <<n>>, "void")
    /\ kernels' = {}
    /\ UNCHANGED <<accelerator, txPoint, txPower, rxPoints, rxRadius, rxFields, parameters,
                   simPc, nRays, rayNo, traced, simulations>>

\* A binary STL file as AddStlModel sees it: whether fopen_s opens it, whether
\* it holds the 80-byte header and the 4-byte count, the count read as a
\* signed int, and the number of complete 50-byte records after the count.
StlFile(opens, header, count, records) ==
    [opens |-> opens, header |-> header, count |-> count, records |-> records]

\* a file that cannot be opened, a file that ends within its header, and the
\* files with a count and up to two complete records
StlFiles ==
    { StlFile(FALSE, TRUE, 1, 1), StlFile(TRUE, FALSE, 0, 0) }
        \cup { StlFile(TRUE, TRUE, c, r) : c \in {-1, 1, 2}, r \in 0..2 }

\* line 90 and line 93: count keeps its initial -1 when the fread reads nothing
StlCount(file) == IF file.header THEN file.count ELSE -1

\* lines 98-120: a record the file does not hold leaves the floats of the
\* loop body unassigned; the triangle built from them has any vertices
StlIndeterminate(k) ==
    { Triangle(k, t.a, t.b, t.c) : t \in { Catalogue[1], Catalogue[2] } }

\* the triangle of the k-th record of a file
StlRecord(k) == Catalogue[k + 2]

\* lines 96-129: the triangles one call pushes, one per iteration
StlPushed(file) ==
    { pushed \in [1..StlCount(file) -> UNION { StlIndeterminate(k) \cup { StlRecord(k) } :
                                                 k \in 1..StlCount(file) }] :
          \A i \in 1..StlCount(file) :
              IF file.header /\ i <= file.records
              THEN pushed[i] = StlRecord(i)
              ELSE pushed[i] \in StlIndeterminate(i) }

\* the most geometries a scene of SpecSession holds
MaxSessionScene == 2

\* AddStlModel, lines 78-132
AddStlModel(file) ==
    /\ Idle
    /\ Len(scene) + Max2(StlCount(file), 0) <= MaxSessionScene
    /\ IF ~file.opens
       THEN /\ UNCHANGED scene
            /\ lastCall' = Return("AddStlModel", <<file>>, "false")
       ELSE /\ \E pushed \in StlPushed(file) : scene' = scene \o pushed
            /\ lastCall' = Return("AddStlModel", <<file>>, "true")
    /\ powers' = NotWritten
    /\ kernels' = {}
    /\ UNCHANGED <<root, ray, pc, currNode, stack, enPt, exPt, rxIntersections, rxOut, result>>
    /\ UNCHANGED <<accelerator, txPoint, txPower, rxPoints, rxRadius, rxFields, parameters,
                   simPc, nRays, rayNo, traced, simulations>>

\* SetPreprocessMethod: an unknown method leaves the accelerator as it was
SetPreprocessMethod(method) ==
    /\ Idle
    /\ accelerator' = IF method \in {"Linear", "Grid", "KdTree"} THEN method ELSE accelerator
    /\ lastCall' = Return("SetPreprocessMethod", <<method>>,
                          IF method \in {"Linear", "Grid", "KdTree"} THEN "true" ELSE "false")
    /\ kernels' = {}
    /\ powers' = NotWritten
    /\ UNCHANGED kdVars
    /\ UNCHANGED <<txPoint, txPower, rxPoints, rxRadius, rxFields, parameters,
                   simPc, nRays, rayNo, traced, simulations>>

SetTxPoint(point, power) ==
    /\ Idle
    /\ txPoint' = point
    /\ txPower' = power
    /\ powers' = NotWritten
    /\ lastCall' = Return("SetTxPoint", <<point, power>>, "void")
    /\ kernels' = {}
    /\ UNCHANGED kdVars
    /\ UNCHANGED <<accelerator, rxPoints, rxRadius, rxFields, parameters,
                   simPc, nRays, rayNo, traced, simulations>>

\* the i-th receiver position a caller passes
RxSite(i) == <<i, i, i>>

SetRxPoints(n, radius) ==
    /\ Idle
    /\ rxPoints' = [i \in 1..n |-> RxSite(i)]
    /\ rxRadius' = radius
    /\ powers' = NotWritten
    /\ lastCall' = Return("SetRxPoints", <<n, radius>>, "void")
    /\ kernels' = {}
    /\ UNCHANGED kdVars
    /\ UNCHANGED <<accelerator, txPoint, txPower, rxFields, parameters,
                   simPc, nRays, rayNo, traced, simulations>>

SetParameters(maxReflections, raySpacing, frequency) ==
    /\ Idle
    /\ parameters' = [maxReflections |-> maxReflections, raySpacing |-> raySpacing,
                      frequency |-> frequency]
    /\ powers' = NotWritten
    /\ lastCall' = Return("SetParameters", <<maxReflections, raySpacing, frequency>>, "void")
    /\ kernels' = {}
    /\ UNCHANGED kdVars
    /\ UNCHANGED <<accelerator, txPoint, txPower, rxPoints, rxRadius, rxFields, simPc, nRays, rayNo, traced, simulations>>

\* lines 535-536: (int)(360.0 / raySpacing + 0.5) and (int)(180.0 / raySpacing + 0.5)
nTheta(raySpacing) == (720 + raySpacing) \div (2 * raySpacing)
nPhi(raySpacing) == (360 + raySpacing) \div (2 * raySpacing)

\* the rays Simulate launches; with raySpacing 0 the conversion of an
\* infinity to int is undefined, the loops run not at all or once
RayCounts(raySpacing) ==
    IF raySpacing = 0 THEN {0, 1} ELSE { nTheta(raySpacing) * nPhi(raySpacing) }

\* lines 509-515: one sphere and one bucket per receiver
RxSpheresOf(points, radius) == [i \in 1..Len(points) |-> RxSphere(i - 1, points[i], radius)]
NewBuckets(points) == [i \in 1..Len(points) |-> {}]

\* Simulate up to the loop over the rays
Simulate ==
    /\ Idle
    /\ accelerator # "NULL"
    /\ simulations < MaxSimulate
    /\ scene' = scene \o RxSpheresOf(rxPoints, rxRadius)
    /\ rxFields' = rxFields \o NewBuckets(rxPoints)
    /\ IF accelerator = "KdTree"
       THEN root' = KdTreeInit(scene') /\ pc' = "built"
       ELSE UNCHANGED <<root, pc>>
    /\ nRays' \in RayCounts(parameters.raySpacing)
    /\ rayNo' = 0
    /\ simPc' = "rays"
    /\ powers' = NotWritten
    /\ lastCall' = Return("Simulate", << >>, "void")
    /\ kernels' = {}
    /\ UNCHANGED <<ray, currNode, stack, enPt, exPt, rxIntersections, rxOut, result>>
    /\ UNCHANGED <<accelerator, txPoint, txPower, rxPoints, rxRadius, parameters, traced,
                   simulations>>

\* the intersection contract: the receivers listed are spheres of the scene,
\* one entry per index in index order, the occluder a triangle of the scene
ListedReceivers(S) ==
    RxEntries([k \in S |-> [distance |-> Rat(1, 1), offset |-> rxRadius, radius |-> rxRadius]], S)

Occluder(g) == [hit |-> TRUE, distance |-> Rat(1, 1), geometry |-> g.index, type |-> g.type]

Answers ==
    { [rx |-> ListedReceivers(S), result |-> h] :
          S \in SUBSET { g.index : g \in Spheres },
          h \in {NoHit} \cup { Occluder(g) : g \in Triangles } }

\* a distance of the launcher in metres (the answers of the contract are at
\* whole metres)
Metres(distance) == distance.p \div distance.q

\* calc_sphere_area(0, 2 PI, 0, PI) of the single cell that ray spacing 360
\* makes, lines 545-549; areas are in units of PI
FullSphere == 4

\* a field: the kernel that computed it, for a ray in which state, and the
\* zoom factor it was scaled by as <<projectionArea, rxSphereArea>>
NoZoom == <<1, 1>>
Field(kernel, r) == [kernel |-> kernel, state |-> r.state, zoom |-> NoZoom]

\* lines 407-412: the receiver-sphere area correction of trace(r, depth, E)
Zoom(Ez, r, rx) ==
    LET mileage == r.prev_mileage + Metres(rx.distance)
        projectionArea == r.unit_surface_area * mileage * mileage
        rxSphereArea == rx.radius * rx.radius
    IN  IF projectionArea < rxSphereArea
        THEN [Ez EXCEPT !.zoom = <<projectionArea, rxSphereArea>>]
        ELSE Ez

\* a kernel entered with a ray in the given state
Kernel(kernel, state) == [kernel |-> kernel, state |-> state]

\* the states a kernel computes a field for: lines 287 and 421 test for
\* MoreReflect, lines 348 and 353 for FirstReflect and MoreReflect; any
\* other state takes the branch that prints "invalid ray state"
ValidStates(kernel) ==
    CASE kernel = "calc_field_direct(r, d)" -> {"Start", "FirstReflect", "MoreReflect"}
      [] kernel = "calc_field_direct(r, d, Ei)" -> {"MoreReflect"}
      [] kernel = "calc_field_reflect" -> {"FirstReflect", "MoreReflect"}
      [] kernel = "trace(r, depth, E)" -> {"MoreReflect"}

\* RxFields::AddField on the bucket of every listed receiver; Ez[j] is the
\* field computed for the entry rx[j]
AddField(fields, rx, r, Ez) ==
    [i \in 1..Len(fields) |->
        fields[i] \cup { [path |-> r.path, state |-> r.state, Ez |-> Ez[j]] :
                            j \in { k \in 1..Len(rx) : rx[k].index = i - 1 } }]

\* a variant of NewRay that leaves the spawned ray in state FirstReflect
NewRayFirstReflect(r, h) ==
    [state |-> "FirstReflect", path |-> << h.geometry >>,
     reflections |-> Append(r.reflections, h.geometry),
     unit_surface_area |-> r.unit_surface_area,
     prev_mileage |-> r.prev_mileage + Metres(h.distance)]

\* lines 434-438 and 491-495: the ray spawned at a hit; the distance from
\* r.origin to the hit of line 494 is the hit distance, r.prev_mileage is 0
NewRay(r, h) ==
    [state |-> "MoreReflect", path |-> << h.geometry >>,
     reflections |-> Append(r.reflections, h.geometry),
     unit_surface_area |-> r.unit_surface_area,
     prev_mileage |-> r.prev_mileage + Metres(h.distance)]

\* variants of the test of line 397 that stop one reflection later or earlier
DepthExceededLate(depth) == depth > parameters.maxReflections + 1
DepthExceededEarly(depth) == depth >= parameters.maxReflections

\* line 397
DepthExceeded(depth) == depth > parameters.maxReflections

\* the ray Simulate constructs at lines 551-552
StartRay == [state |-> "Start", path |-> << >>, reflections |-> << >>,
             unit_surface_area |-> FullSphere, prev_mileage |-> 0]

NoTrace == [ray |-> NoRay, depth |-> 0]

\* trace(r, 0) on the next ray of Simulate's loops, up to its call of
\* trace(newRay, 1, Er) or its return
trace ==
    /\ simPc = "rays"
    /\ rayNo < nRays
    /\ \E a \in Answers :
          LET r == StartRay
              direct == a.rx # << >> /\ r.state = "Start"
              reflect == a.result.hit /\ r.state = "Start"
          IN  /\ rxOut' = a.rx
              /\ result' = a.result
              /\ rxFields' = IF direct
                             THEN AddField(rxFields, a.rx, r,
                                           [j \in 1..Len(a.rx) |->
                                               Field("calc_field_direct(r, d)", r)])
                             ELSE rxFields
              /\ kernels' =
                    (IF direct THEN { Kernel("calc_field_direct(r, d)", r.state) } ELSE {})
                    \cup (IF reflect
                          THEN { Kernel("calc_field_direct(r, d)", r.state),
                                 Kernel("calc_field_reflect", "FirstReflect") }
                          ELSE {})
              /\ IF reflect
                 THEN /\ traced' = [ray |-> NewRay(r, a.result), depth |-> 1]
                      /\ simPc' = "trace"
                      /\ UNCHANGED rayNo
                 ELSE /\ traced' = NoTrace
                      /\ rayNo' = rayNo + 1
                      /\ UNCHANGED simPc
    /\ UNCHANGED <<scene, root, ray, pc, currNode, stack, enPt, exPt, rxIntersections>>
    /\ UNCHANGED <<accelerator, txPoint, txPower, rxPoints, rxRadius, parameters, powers,
                   nRays, simulations, lastCall>>

\* trace(r, depth, E), up to its recursive call or its return
traceE ==
    /\ simPc = "trace"
    /\ \E a \in Answers :
          LET r == traced.ray
              reflect == a.result.hit /\ r.state = "MoreReflect"
          IN  /\ rxOut' = a.rx
              /\ result' = a.result
              /\ IF DepthExceeded(traced.depth)
                 THEN /\ traced' = NoTrace
                      /\ rayNo' = rayNo + 1
                      /\ simPc' = "rays"
                      /\ kernels' = { Kernel("trace(r, depth, E)", r.state) }
                      /\ UNCHANGED rxFields
                 ELSE /\ rxFields' =
                            AddField(rxFields, a.rx, r,
                                     [j \in 1..Len(a.rx) |->
                                         Zoom(Field("calc_field_direct(r, d, Ei)", r),
                                              r, a.rx[j])])
                      /\ kernels' =
                            { Kernel("trace(r, depth, E)", r.state) }
                            \cup (IF a.rx # << >> \/ reflect
                                  THEN { Kernel("calc_field_direct(r, d, Ei)", r.state) }
                                  ELSE {})
                            \cup (IF reflect
                                  THEN { Kernel("calc_field_reflect", r.state) }
                                  ELSE {})
                      /\ IF reflect
                         THEN /\ traced' = [ray |-> NewRay(r, a.result),
                                            depth |-> traced.depth + 1]
                              /\ UNCHANGED <<rayNo, simPc>>
                         ELSE /\ traced' = NoTrace
                              /\ rayNo' = rayNo + 1
                              /\ simPc' = "rays"
    /\ UNCHANGED <<scene, root, ray, pc, currNode, stack, enPt, exPt, rxIntersections>>
    /\ UNCHANGED <<accelerator, txPoint, txPower, rxPoints, rxRadius, parameters, powers,
                   nRays, simulations, lastCall>>

\* Simulate after its loops
SimulateReturn ==
    /\ simPc = "rays"
    /\ rayNo = nRays
    /\ simPc' = "idle"
    /\ nRays' = 0
    /\ rayNo' = 0
    /\ simulations' = simulations + 1
    /\ rxOut' = << >>
    /\ result' = NoHit
    /\ UNCHANGED <<scene, root, ray, pc, currNode, stack, enPt, exPt, rxIntersections>>
    /\ UNCHANGED <<accelerator, txPoint, txPower, rxPoints, rxRadius, rxFields, parameters,
                   powers, traced, lastCall>>
    /\ kernels' = {}

\* line 570: the power written for a bucket whose fields sum to zero
ZeroFieldPower(power) == power - 250

\* lines 562-578; a bucket's sum is zero when no field was added to it
GetRxPowers ==
    /\ Idle
    /\ powers' = [called |-> TRUE,
                  written |-> [i \in 1..Len(rxFields) |->
                                  IF rxFields[i] = {}
                                  THEN [dBm |-> ZeroFieldPower(txPower)]
                                  ELSE [calc_power |-> rxFields[i]]]]
    /\ lastCall' = Return("GetRxPowers", << >>, "void")
    /\ kernels' = {}
    /\ UNCHANGED kdVars
    /\ UNCHANGED <<accelerator, txPoint, txPower, rxPoints, rxRadius, rxFields, parameters,
                   simPc, nRays, rayNo, traced, simulations>>

RtInit ==
    /\ scene = << >>
    /\ KdIdle
    /\ RtIdle

RtNext ==
    \/ Initialize
    \/ \E n \in {Len(RtCatalogue)} : AddTriangles(n)
    \/ \E method \in Methods : SetPreprocessMethod(method)
    \/ \E power \in TxPowers : SetTxPoint(<<2, 2, 2>>, power)
    \/ \E n \in ReceiverCounts, radius \in ReceiverRadii : SetRxPoints(n, radius)
    \/ \E m \in 0..MaxReflections, s \in RaySpacings, f \in Frequencies :
          SetParameters(m, s, f)
    \/ Simulate
    \/ trace
    \/ traceE
    \/ SimulateReturn
    \/ GetRxPowers

SpecRt == RtInit /\ [][RtNext]_vars

-----------------------------------------------------------------------------
(* SpecSession: the session calls before Simulate, with every argument a   *)
(* caller can pass, the invalid ones included.                             *)

SessionReflections == {-1, 1}
SessionRaySpacings == {0, 360}
SessionFrequencies == {0, 900}
SessionRadii == {0, 1}
SessionMethods == {"Linear", "KdTree", "Unknown"}

SessionNext ==
    \/ Initialize
    \/ \E n \in 1..Len(RtCatalogue) : Len(scene) + n <= MaxSessionScene /\ AddTriangles(n)
    \/ \E file \in StlFiles : AddStlModel(file)
    \/ \E method \in SessionMethods : SetPreprocessMethod(method)
    \/ \E power \in TxPowers : SetTxPoint(<<2, 2, 2>>, power)
    \/ \E n \in ReceiverCounts, radius \in SessionRadii : SetRxPoints(n, radius)
    \/ \E m \in SessionReflections, s \in SessionRaySpacings, f \in SessionFrequencies :
          SetParameters(m, s, f)

SpecSession == RtInit /\ [][SessionNext]_vars

-----------------------------------------------------------------------------
(* Properties of the built tree (SpecBuild)                                *)

Built == pc = "built"

Leaves == { n \in root : n.axis = NoAxis }
Internals == { n \in root : n.axis # NoAxis }

RECURSIVE Pow2(_)
Pow2(k) == IF k = 0 THEN 1 ELSE 2 * Pow2(k - 1)

\* n is reached from the root through child pointers of internal nodes
Reachable(n) ==
    \A k \in 1..n.depth :
        \E m \in Internals : m.id = n.id \div Pow2(k) /\ m.depth = n.depth - k

BoxesOverlap(b1, b2) ==
    \A k \in 1..3 : b1.min[k] <= b2.max[k] /\ b2.min[k] <= b1.max[k]

Holds(n, g) == \E j \in 1..Len(n.list) : n.list[j] = g

\* C3: every triangle of the scene is in the list of a leaf that is reachable
\* from the root and whose box overlaps the triangle's bounding box.
C3_EveryTriangleInAnOverlappingLeaf ==
    Built =>
        \A k \in 1..Len(scene) :
            scene[k].type = "TRIANGLE" =>
                \E n \in Leaves :
                    /\ Reachable(n)
                    /\ Holds(n, scene[k])
                    /\ BoxesOverlap(n, getBoundingBox(scene[k]))

\* a tree in which a triangle lying in the split plane was distributed
C3_Witness ==
    /\ Built
    /\ \E m \in Internals : \E k \in 1..Len(scene) :
           /\ scene[k].type = "TRIANGLE"
           /\ At(getBoundingBox(scene[k]).min, m.axis) = m.splitPlane
           /\ At(getBoundingBox(scene[k]).max, m.axis) = m.splitPlane
           /\ \E n \in Leaves : n.depth > m.depth /\ Holds(n, scene[k])

\* C4 as stated: no node of the tree lies deeper than 18.
C4_NoNodeDeeperThan18 == Built => \A n \in root : n.depth <= MaxDepth

\* C4 as the code has it: internal nodes lie at depth 18 at most, and leaves
\* at depth 19 at most.
C4_NoNodeDeeperThan19 ==
    Built =>
        \A n \in root :
            /\ n.depth <= MaxDepth + 1
            /\ n.axis # NoAxis => n.depth <= MaxDepth

\* a tree with a leaf at depth 19 under an internal node at depth 18
C4_Witness ==
    /\ Built
    /\ \E n \in Leaves : n.depth = MaxDepth + 1 /\ Reachable(n)

\* the no-split rule of line 81 holds for the geometries of leaf n in its box
SAHTerminated(n) ==
    AutoTerminate(splitSAH([min |-> n.min, max |-> n.max], n.list).minSAH, n.list)

\* C5 as stated: a leaf holds at most 8 geometries or the best SAH cost of
\* its list exceeds 1.5 times the list size.
C5_LeafSmallOrSAHTerminated ==
    Built => \A n \in Leaves : Len(n.list) <= LeafSize \/ SAHTerminated(n)

\* C5 as the code has it: a leaf holds at most 8 geometries, or the best SAH
\* cost of its list exceeds 1.5 times the list size, or it lies deeper than 18.
C5_LeafSmallOrSAHTerminatedOrDeep ==
    Built =>
        \A n \in Leaves :
            \/ Len(n.list) <= LeafSize
            \/ n.depth > MaxDepth
            \/ n.sahLeaf /\ SAHTerminated(n)

\* a tree with a leaf of more than 8 geometries made by the no-split rule
C5_Witness ==
    /\ Built
    /\ \E n \in Leaves : Len(n.list) > LeafSize /\ n.depth <= MaxDepth /\ n.sahLeaf

FEqual(x, y) ==
    IF FIsNaN(x) \/ FIsNaN(y) THEN FIsNaN(x) /\ FIsNaN(y)
    ELSE ~FLess(x, y) /\ ~FLess(y, x)

\* the cost as the comment of line 264 and the specification give it:
\* KT + KI * ((SAL / SA) * (NL + NP) + (SAR / SA) * NR)
DocumentedCost(node, axis, position, NL, NP, NR) ==
    SAHCost(node, axis, position, NL + NP, 0, NR)

\* the candidate planes the sweep of one axis evaluates, each with the counts
\* the sweep holds when it computes the cost (line 279)
Candidates(list, axis) ==
    LET events == SortedEvents(list, axis)
        Before(i, types) ==
            Cardinality({ k \in 1..(i - 1) : events[k].type \in types })
        UpTo(position, types) ==
            Cardinality({ k \in 1..Len(events) :
                            events[k].position <= position /\ events[k].type \in types })
    IN  { [position |-> events[i].position,
           NL |-> Before(i, {Start, Planar}),
           NP |-> EventRun(events, i, events[i].position, Planar),
           NR |-> Len(list) - UpTo(events[i].position, {End, Planar})] :
          i \in { j \in 1..Len(events) :
                    j = 1 \/ events[j - 1].position # events[j].position } }

RootBox == SceneBox(scene, 2, getBoundingBox(scene[1]))

\* C6: the cost splitSAH computes at every candidate plane of the root is
\* KT + KI * ((SAL / SA) * (NL + NP) + (SAR / SA) * NR), the geometries planar
\* at the plane being weighted with the left area.
C6_PlanarWeightedWithLeftArea ==
    Built /\ ~IsLeaf(scene, 0) =>
        \A axis \in Axes : \A c \in Candidates(scene, axis) :
            FEqual(SAHCost(RootBox, axis, c.position, c.NL, c.NP, c.NR),
                   DocumentedCost(RootBox, axis, c.position, c.NL, c.NP, c.NR))

\* the plane splitSAH chose for an internal node is a candidate of the sweep,
\* with the counts the sweep held for it
ChosenIsCandidate ==
    Built /\ ~IsLeaf(scene, 0) =>
        \A n \in Internals :
            n.id = 1 =>
                \E c \in Candidates(scene, n.axis) :
                    /\ c.position = n.splitPlane
                    /\ c.NL = n.split.NL /\ c.NP = n.split.NP /\ c.NR = n.split.NR
                    /\ \A axis \in Axes : \A d \in Candidates(scene, axis) :
                           ~FLess(SAHCost(RootBox, axis, d.position, d.NL, d.NP, d.NR),
                                  n.split.minSAH)

\* the children of an internal node
LeftChild(n) == CHOOSE c \in root : c.id = 2 * n.id
RightChild(n) == CHOOSE c \in root : c.id = 2 * n.id + 1

\* the geometries of a list whose boxes reach out of the box on the axis
Protruding(list, box, axis) ==
    { k \in 1..Len(list) :
        \/ At(getBoundingBox(list[k]).min, axis) < At(box.min, axis)
        \/ At(getBoundingBox(list[k]).max, axis) > At(box.max, axis) }

\* C17: the split position of every internal node lies within the node's
\* box on the split axis, so the boxes of both children have min <= max on
\* every axis.
C17_SplitWithinNodeBox ==
    Built =>
        \A n \in Internals :
            /\ At(n.min, n.axis) <= n.splitPlane
            /\ n.splitPlane <= At(n.max, n.axis)
            /\ \A c \in {LeftChild(n), RightChild(n)} :
                   \A k \in 1..3 : c.min[k] <= c.max[k]

\* an internal node below the root whose list holds a geometry that reaches
\* out of the node's box on the split axis: the sweep had candidate
\* positions outside the box
C17_Witness ==
    /\ Built
    /\ \E n \in Internals :
           /\ n.depth >= 1
           /\ Protruding(n.given, n, n.axis) # {}

\* the geometries of a list that are not planar on the axis and whose
\* maximum lies on the plane
EndsOnPlane(list, axis, position) ==
    { k \in 1..Len(list) :
        /\ At(getBoundingBox(list[k]).min, axis) < position
        /\ At(getBoundingBox(list[k]).max, axis) = position }

\* C18 as stated: at every internal node the left child's list has NL
\* geometries and the right child's list NR + NP, the counts the cost of the
\* chosen plane was computed from.
C18_ChildSizesAreSweepCounts ==
    Built =>
        \A n \in Internals :
            /\ Len(LeftChild(n).given) = n.split.NL
            /\ Len(RightChild(n).given) = n.split.NR + n.split.NP

\* C18 as the code has it: the left child's list has NL geometries; the
\* right child's list has NR + NP and, in addition, every non-planar
\* geometry whose maximum lies on the plane: the sweep has taken it out of
\* NR, the distribution puts it into both children.
C18_ChildSizesUpToEndsOnPlane ==
    Built =>
        \A n \in Internals :
            /\ Len(LeftChild(n).given) = n.split.NL
            /\ Len(RightChild(n).given) =
                   n.split.NR + n.split.NP
                   + Cardinality(EndsOnPlane(n.given, n.axis, n.splitPlane))

\* an internal node with a non-planar geometry that ends on the chosen plane
\* and with a geometry planar in it
C18_Witness ==
    /\ Built
    /\ \E n \in Internals :
           /\ EndsOnPlane(n.given, n.axis, n.splitPlane) # {}
           /\ n.split.NP >= 1

-----------------------------------------------------------------------------
(* Properties of the traversal (SpecKd).                                   *)

Traversed == pc = "done"


\* the triangle hits a scan of the whole scene finds for the ray
BruteForceHits == { h \in { TriangleIntersect(g, ray) : g \in Triangles } : h.hit }

\* C1: the traversal reports the occluder a brute-force scan of all scene
\* triangles reports: a hit iff some triangle is hit, and then a triangle
\* hit of the smallest distance along the ray.
C1_SameOccluderAsBruteForce ==
    Traversed =>
        /\ result.hit = (BruteForceHits # {})
        /\ result.hit =>
              /\ result \in BruteForceHits
              /\ \A h \in BruteForceHits : ~DLess(h.distance, result.distance)

\* the ray crosses the sphere's surface at two points, the nearer accepted
\* one in front of the origin
Pierces(g, r) ==
    LET oc == Sub(r.origin, g.center)
        B == Dot(r.direction, oc)
        D == B * B - Dot(r.direction, r.direction) * (Dot(oc, oc) - g.radius * g.radius)
    IN  D > 0 /\ SphereIntersect(g, r).hit

OccluderDistance == IF result.hit THEN result.distance ELSE DistMax

\* C2: the receiver list holds one entry per index; every entry is a
\* receiver sphere the ray hits before the reported occluder distance (any
\* hit when no occluder is reported), every sphere pierced before that
\* distance has an entry, and a ray that misses the root box leaves the list
\* empty.
C2_ReceiversBeforeOccluder ==
    Traversed =>
        /\ \A i, j \in 1..Len(rxOut) : rxOut[i].index = rxOut[j].index => i = j
        /\ \A i \in 1..Len(rxOut) :
              \E g \in Spheres :
                  /\ g.index = rxOut[i].index
                  /\ SphereIntersect(g, ray).hit
                  /\ rxOut[i].distance = SphereIntersect(g, ray).distance
                  /\ DLess(rxOut[i].distance, OccluderDistance)
        /\ \A g \in Spheres :
              Pierces(g, ray) /\ DLess(SphereIntersect(g, ray).distance, OccluderDistance)
                  => \E i \in 1..Len(rxOut) : rxOut[i].index = g.index
        /\ ~GridIntersect(RootBox, ray).hit => rxOut = << >>

\* an occluder is reported, a receiver in front of it is listed and a
\* receiver collected behind it is filtered out
C2_Witness ==
    /\ Traversed
    /\ result.hit
    /\ Len(rxOut) >= 1
    /\ \E k \in DOMAIN rxIntersections :
          /\ DGreater(rxIntersections[k].distance, OccluderDistance)
          /\ \A i \in 1..Len(rxOut) : rxOut[i].index # k

\* the slots that hold an exit point still to be popped: the exit point k
\* and those linked from it through prev
RECURSIVE PendingSlots(_)
PendingSlots(k) ==
    {k} \cup (IF stack[k].prevSet THEN PendingSlots(stack[k].prev) ELSE {})

\* a step of the descent that pushes a far child (lines 425-435)
Push ==
    /\ pc = "loop"
    /\ currNode # NULL
    /\ Node(currNode).axis # NoAxis
    /\ exPt' # exPt

\* a push takes the next index or the one after it, and writes neither the
\* entry point's slot nor the slot of a pending exit point
PushesKeepPending ==
    Push => /\ exPt' - exPt \in {1, 2}
            /\ exPt' # enPt
            /\ exPt' \notin PendingSlots(exPt)

\* every index the traversal reads or writes the stack with is within it
StackAccessesInRange ==
    pc' = "loop" /\ currNode' # NULL =>
        enPt' \in 0..(StackSize - 1) /\ exPt' \in 0..(StackSize - 1)

\* what holds of the stack in the code: the accesses are in range and the
\* pushes keep what is pending
StackSafeWhileTraversing == [][StackAccessesInRange /\ PushesKeepPending]_vars

\* C15: during a traversal enPt and exPt stay within the 50-entry stack at
\* every push and pop, a level of descent consumes at most 2 indices, and a
\* push never writes the slot of the entry point or of a pending far child.
C15_StackIndicesInRange ==
    [][/\ pc' = "loop" =>
             enPt' \in 0..(StackSize - 1) /\ exPt' \in 0..(StackSize - 1)
       /\ PushesKeepPending]_vars

-----------------------------------------------------------------------------
(* Properties of the tree under reordering (SpecPermute)                   *)

\* what of a tree does not depend on the order within a list: per node its
\* place, its split axis and position, and the set of its geometries
TreeShape(tree) ==
    { [id |-> n.id, axis |-> n.axis, splitPlane |-> n.splitPlane,
       members |-> { n.list[k] : k \in 1..Len(n.list) }] : n \in tree }

BaseTree == KdTreeInit(PermuteBase)

\* C14: the tree built over a permutation of a geometry list has the same
\* split axis and position at every internal node and the same set of
\* geometries in every leaf as the tree built over the list itself.
C14_SameTreeForEveryOrder ==
    pc = "built" => TreeShape(root) = TreeShape(BaseTree)

\* a tree with internal nodes was built over a reordered list, and one of its
\* leaves holds its geometries in another order than the same leaf of the
\* tree over the list
C14_Witness ==
    /\ pc = "built"
    /\ scene # PermuteBase
    /\ \E n \in root : n.axis # NoAxis
    /\ \E n \in root : \E b \in BaseTree :
           n.id = b.id /\ n.axis = NoAxis /\ n.list # b.list

-----------------------------------------------------------------------------
(* Properties of the launcher (SpecRt).                                    *)

Tracing == simPc = "trace"

\* C7: the path of every ray handed to the recursive trace is the sequence
\* of the indices of all triangles it has reflected off, one per reflection.
C7_PathIsEveryReflection ==
    Tracing =>
        /\ traced.ray.path = traced.ray.reflections
        /\ Len(traced.ray.path) = traced.depth

\* C8, as claimed: a trace at depth maxReflections spawns no ray, so no
\* trace runs at a depth beyond maxReflections.
C8_NoTraceBeyondMaxReflections ==
    Tracing => traced.depth <= parameters.maxReflections

\* C8, as the code has it: a trace at any depth up to maxReflections spawns
\* a ray at every hit and traces it one deeper, also at depth maxReflections;
\* the trace at depth maxReflections + 1 returns after its intersection,
\* adding no field and spawning no ray.
C8_TraceBeyondMaxReflectionsReturns ==
    [][Tracing =>
          /\ traced.depth <= parameters.maxReflections + 1
          /\ traced.depth > parameters.maxReflections =>
                rxFields' = rxFields /\ simPc' = "rays"
          /\ traced.depth <= parameters.maxReflections /\ result'.hit =>
                simPc' = "trace" /\ traced'.depth = traced.depth + 1]_vars

\* a trace is entered at depth maxReflections + 1 with a field on record
C8_Witness ==
    /\ Tracing
    /\ traced.depth = parameters.maxReflections + 1
    /\ \E i \in 1..Len(rxFields) : rxFields[i] # {}

\* C9: after a Simulate, GetRxPowers writes one value per registered
\* receiver: as many as the last SetRxPoints set.
C9_OnePowerPerReceiver ==
    powers.called /\ simulations >= 1 => Len(powers.written) = Len(rxPoints)

C13_NoInvalidRayState ==
    /\ \A c \in kernels : c.state \in ValidStates(c.kernel)
    /\ Tracing => traced.ray.state = "MoreReflect"
    /\ \A i \in 1..Len(rxFields) :
           \A f \in rxFields[i] :
               f.state = "Start" => f.Ez.kernel = "calc_field_direct(r, d)"

\* a reflected ray has just recorded a transported field and reflected
\* again, and a Start ray's direct field is on record
C13_Witness ==
    /\ Tracing
    /\ traced.depth >= 2
    /\ Kernel("calc_field_direct(r, d, Ei)", "MoreReflect") \in kernels
    /\ Kernel("calc_field_reflect", "MoreReflect") \in kernels
    /\ \E i \in 1..Len(rxFields) :
           /\ \E f \in rxFields[i] : f.state = "Start"
           /\ \E f \in rxFields[i] : f.state = "MoreReflect"

\* the ray of the trace step under way
TracedRay == IF simPc = "rays" THEN StartRay ELSE traced.ray

\* the zoom the area correction asks for: projectionArea against
\* rxSphereArea when the projected cell is smaller than the receiver disc
AreaCorrection(r, rx) ==
    LET mileage == r.prev_mileage + Metres(rx.distance)
        projectionArea == r.unit_surface_area * mileage * mileage
        rxSphereArea == rx.radius * rx.radius
    IN  IF projectionArea < rxSphereArea THEN <<projectionArea, rxSphereArea>> ELSE NoZoom

\* C16: every field the launcher records for a receiver piercing, of a
\* Start ray as of a MoreReflect ray, carries the area correction: it is
\* scaled by sqrt(projectionArea / rxSphereArea) when
\* unit_surface_area * (prev_mileage + distance)^2 < pi * radius^2 and is
\* unchanged otherwise.
C16_AreaCorrectionOnEveryField ==
    [][~Idle =>
          \A i \in 1..Len(rxFields) :
              \A f \in rxFields'[i] \ rxFields[i] :
                  \E j \in 1..Len(rxOut') :
                      /\ rxOut'[j].index = i - 1
                      /\ f.Ez.zoom = AreaCorrection(TracedRay, rxOut'[j])]_vars

\* the correction as the code applies it: to the fields of MoreReflect rays
\* only, the field of a Start ray is recorded as computed
AreaCorrectionOnReflectedFields ==
    [][~Idle =>
          \A i \in 1..Len(rxFields) :
              \A f \in rxFields'[i] \ rxFields[i] :
                  \E j \in 1..Len(rxOut') :
                      /\ rxOut'[j].index = i - 1
                      /\ f.Ez.zoom = IF f.state = "MoreReflect"
                                     THEN AreaCorrection(TracedRay, rxOut'[j])
                                     ELSE NoZoom]_vars

-----------------------------------------------------------------------------
(* Properties of the session calls (SpecSession)                           *)

\* the file a call of AddStlModel must refuse: it cannot be opened, it ends
\* before its count or before the last of its records, or its count is
\* negative
StlInvalid(file) ==
    \/ ~file.opens
    \/ ~file.header
    \/ file.count < 0
    \/ file.records < file.count

\* C11: AddStlModel on a file that cannot be opened, is truncated or has an
\* invalid count returns false and leaves the scene as it was before the
\* call.
C11_InvalidStlLeavesScene ==
    [][lastCall'.op = "AddStlModel" /\ StlInvalid(lastCall'.args[1])
           => lastCall'.value = "false" /\ scene' = scene]_vars
\* the arguments a parameter-setting call must refuse
ParametersInvalid(args) == args[1] < 0 \/ args[2] <= 0 \/ args[3] <= 0
RadiusInvalid(args) == args[2] <= 0
MethodUnknown(args) == args[1] \notin {"Linear", "Grid", "KdTree"}

\* SetPreprocessMethod with an unknown method returns false and leaves the
\* accelerator as it was
UnknownMethodRejected ==
    lastCall'.op = "SetPreprocessMethod" /\ MethodUnknown(lastCall'.args)
        => lastCall'.value = "false" /\ accelerator' = accelerator

\* C12: a parameter-setting call with a non-positive frequency, raySpacing
\* or rxRadius or a negative maxReflections reports failure and leaves the
\* stored parameters unchanged, and SetPreprocessMethod with an unknown
\* method returns false and leaves the accelerator unchanged.
C12_InvalidParametersRejected ==
    [][/\ lastCall'.op = "SetParameters" /\ ParametersInvalid(lastCall'.args)
           => lastCall'.value = "false" /\ parameters' = parameters
       /\ lastCall'.op = "SetRxPoints" /\ RadiusInvalid(lastCall'.args)
           => lastCall'.value = "false" /\ rxPoints' = rxPoints /\ rxRadius' = rxRadius
       /\ UnknownMethodRejected]_vars

=============================================================================
